---- MODULE Spec2Model ----
(***************************************************************************)
(* Model of rusoto/signature/src/stream.rs: ByteStream, the AsyncRead      *)
(* adapter ImplAsyncRead and the blocking adapter ImplBlockingRead.        *)
(*                                                                         *)
(* Two ByteStreams are built by the same constructor from the same chunk   *)
(* source.  Instance "async" is converted with into_async_read, instance   *)
(* "blocking" with into_blocking_read.  The caller issues every operation  *)
(* first to "async" and then, with the same arguments, to "blocking", so   *)
(* that the two adapters can be compared call by call.  A ByteStream is     *)
(* either polled as a Stream or converted, unpolled, into a reader: the     *)
(* readers of partly consumed streams are the readers of shorter sources.  *)
(***************************************************************************)
EXTENDS Integers, Sequences, FiniteSets, TLC

\* ---------------------------------------------------------------- bounds
MaxItems == 3
MaxChunkLen == 2
MaxCap == 3

\* ------------------------------------------------------- values and helpers
Insts == {"async", "blocking"}

Min(a, b) == IF a <= b THEN a ELSE b

Take(s, n) == SubSeq(s, 1, n)

Drop(s, n) == SubSeq(s, n + 1, Len(s))

IsPrefix(p, s) == Len(p) <= Len(s) /\ Take(s, Len(p)) = p

IsSuffix(p, s) == Len(p) <= Len(s) /\ Drop(s, Len(s) - Len(p)) = p

\* Option<usize>: None is the empty sequence, Some(x) is <<x>>.
None == <<>>

Some(x) == <<x>>

\* io::Error values.  A source error is identified by the position of the
\* item that carries it; the runtime-creation error is a different value.
NoErr == [origin |-> "none", id |-> 0]

SourceErr(i) == [origin |-> "source", id |-> i]

RuntimeErr == [origin |-> "runtime", id |-> 0]

\* Results of a poll and return values of the operations.
Res(t, e, n, v) == [t |-> t, e |-> e, n |-> n, v |-> v]

PollPending == Res("Pending", NoErr, 0, <<>>)

PollNone == Res("None", NoErr, 0, <<>>)

PollErr(e) == Res("Err", e, 0, <<>>)

PollChunk(b) == Res("Chunk", NoErr, Len(b), b)

NoRet == Res("-", NoErr, 0, <<>>)

\* ------------------------------------------------------------ chunk sources
\* An item of a source: Ok(bytes), Err(e), or an end-of-sequence report
\* (a source that is polled after reporting its end may produce items again;
\* once its items are used up it reports the end for ever).
ChunkItem(b) == [t |-> "chunk", b |-> b, e |-> NoErr]

ErrItem(i) == [t |-> "err", b |-> <<>>, e |-> SourceErr(i)]

EndItem == [t |-> "end", b |-> <<>>, e |-> NoErr]

Kinds == [t : {"chunk"}, n : 0 .. MaxChunkLen] \cup [t : {"err", "end"}, n : {0}]

KindSeqs == UNION {[1 .. k -> Kinds] : k \in 0 .. MaxItems}

\* The bytes of a source are numbered 1, 2, 3, ... in the order the source
\* produces them, so that any loss, duplication or reordering shows.
RECURSIVE Build(_, _, _)
Build(ks, i, off) ==
    IF i > Len(ks) THEN <<>>
    ELSE IF ks[i].t = "chunk"
         THEN <<ChunkItem([j \in 1 .. ks[i].n |-> off + j])>> \o Build(ks, i + 1, off + ks[i].n)
         ELSE IF ks[i].t = "err"
              THEN <<ErrItem(i)>> \o Build(ks, i + 1, off)
              ELSE <<EndItem>> \o Build(ks, i + 1, off)

Sources == {Build(ks, 1, 0) : ks \in KindSeqs}

\* The chunks of the tests: "1234", "5678", read with a 3-byte buffer and,
\* in test_new_with_size_read, built with size hint 8.
TestChunks == <<ChunkItem(<<1, 2, 3, 4>>), ChunkItem(<<5, 6, 7, 8>>)>>

TestBufLen == 3

TestSizeHint == 8

\* stream::once(async move { Ok(buf) })
Once(buf) == <<ChunkItem(buf)>>

\* Concatenation of the chunks among the first k items of a source.
RECURSIVE ChunkBytes(_, _)
ChunkBytes(s, k) ==
    IF k = 0 THEN <<>>
    ELSE ChunkBytes(s, k - 1) \o (IF s[k].t = "chunk" THEN s[k].b ELSE <<>>)

\* Stream::poll_next of the wrapped source.  The source advances only when
\* it is polled; `ready` is whether its next item is available at this poll.
SourcePollNext(s, ready) ==
    IF ~ready THEN [stream |-> s, res |-> PollPending]
    ELSE IF s = <<>> THEN [stream |-> s, res |-> PollNone]
    ELSE [stream |-> Tail(s),
          res |-> CASE Head(s).t = "chunk" -> PollChunk(Head(s).b)
                    [] Head(s).t = "err" -> PollErr(Head(s).e)
                    [] OTHER -> PollNone]

\* ---------------------------------------------------------------- ByteStream
New(stream) == [kind |-> "ByteStream", size_hint |-> None, inner |-> stream]

NewWithSize(stream, hint) == [kind |-> "ByteStream", size_hint |-> Some(hint), inner |-> stream]

FromBytes(buf) == [kind |-> "ByteStream", size_hint |-> Some(Len(buf)), inner |-> Once(buf)]

FromVec(buf) == [kind |-> "ByteStream", size_hint |-> Some(Len(buf)), inner |-> Once(buf)]

SizeHintOf(bs) == bs.size_hint

\* ByteStreamPollNext with the size hint recomputed as the bytes still to
\* come, as if it were a remaining-length counter.
ByteStreamPollNextCounting(bs, ready) ==
    LET p == SourcePollNext(bs.inner, ready)
        hint == IF bs.size_hint = None \/ p.res.t # "Chunk" THEN bs.size_hint
                ELSE Some(IF bs.size_hint[1] >= p.res.n THEN bs.size_hint[1] - p.res.n ELSE 0)
    IN  [obj |-> [bs EXCEPT !.inner = p.stream, !.size_hint = hint],
         res |-> p.res, polls |-> 1]

\* ByteStreamPollNext that reports the end of the sequence when the source
\* is not ready.
ByteStreamPollNextPendingAsEnd(bs, ready) ==
    LET p == SourcePollNext(bs.inner, ready)
    IN  [obj |-> [bs EXCEPT !.inner = p.stream],
         res |-> IF p.res.t = "Pending" THEN PollNone ELSE p.res,
         polls |-> 1]

\* ByteStreamPollNext that polls the source a second time after a chunk and
\* returns the second result, so that the first chunk is lost.
ByteStreamPollNextTwice(bs, ready) ==
    LET p == SourcePollNext(bs.inner, ready)
        q == SourcePollNext(p.stream, ready)
    IN  IF p.res.t = "Chunk"
        THEN [obj |-> [bs EXCEPT !.inner = q.stream], res |-> q.res, polls |-> 2]
        ELSE [obj |-> [bs EXCEPT !.inner = p.stream], res |-> p.res, polls |-> 1]

\* impl Stream for ByteStream: poll_next polls the wrapped source.
ByteStreamPollNext(bs, ready) ==
    LET p == SourcePollNext(bs.inner, ready)
    IN  [obj |-> [bs EXCEPT !.inner = p.stream], res |-> p.res, polls |-> 1]

\* ------------------------------------------------------------- ImplAsyncRead
\* futures::stream::Fuse: after the stream has returned None it is not
\* polled again.
FuseOf(stream) == [done |-> FALSE, stream |-> stream]

\* FusePollNext without the fuse: the stream is polled whatever it returned.
FusePollNextUnfused(f, ready) ==
    LET p == SourcePollNext(f.stream, ready)
    IN  [fuse |-> [done |-> FALSE, stream |-> p.stream], res |-> p.res, polled |-> TRUE]

\* FusePollNext that also treats an error as the end of the stream.
FusePollNextDoneOnErr(f, ready) ==
    IF f.done THEN [fuse |-> f, res |-> PollNone, polled |-> FALSE]
    ELSE LET p == SourcePollNext(f.stream, ready)
         IN  [fuse |-> [done |-> (p.res.t \in {"None", "Err"}), stream |-> p.stream],
              res |-> p.res, polled |-> TRUE]

FusePollNext(f, ready) ==
    IF f.done THEN [fuse |-> f, res |-> PollNone, polled |-> FALSE]
    ELSE LET p == SourcePollNext(f.stream, ready)
         IN  [fuse |-> [done |-> (p.res.t = "None"), stream |-> p.stream],
              res |-> p.res, polled |-> TRUE]

ImplAsyncReadNew(stream) ==
    [kind |-> "ImplAsyncRead", buffer |-> <<>>, stream |-> FuseOf(stream)]

\* Serve with the unread rest of the chunk thrown away instead of retained.
ServeDropRest(rd, remaining, polled, pulled) ==
    LET available == Min(remaining, Len(rd.buffer))
    IN  [rd |-> [rd EXCEPT !.buffer = <<>>],
         res |-> Res("Ok", NoErr, 0, <<>>),
         put |-> Take(rd.buffer, available),
         polled |-> polled, pulled |-> pulled,
         got |-> IF pulled > 0 THEN "Chunk" ELSE "-"]

\* Serve that hands out the whole buffer whatever the target can take.
ServeWholeBuffer(rd, remaining, polled, pulled) ==
    [rd |-> [rd EXCEPT !.buffer = <<>>],
     res |-> Res("Ok", NoErr, 0, <<>>),
     put |-> rd.buffer,
     polled |-> polled, pulled |-> pulled,
     got |-> IF pulled > 0 THEN "Chunk" ELSE "-"]

\* The tail of poll_read: move min(remaining, buffer.len()) bytes from the
\* front of the buffer into the target.
Serve(rd, remaining, polled, pulled) ==
    LET available == Min(remaining, Len(rd.buffer))
    IN  [rd |-> [rd EXCEPT !.buffer = Drop(rd.buffer, available)],
         res |-> Res("Ok", NoErr, 0, <<>>),
         put |-> Take(rd.buffer, available),
         polled |-> polled, pulled |-> pulled,
         got |-> IF pulled > 0 THEN "Chunk" ELSE "-"]

\* poll_read that keeps pulling while the target has room: after the first
\* chunk it takes a second one when the target is not yet full.
PollReadGreedy(rd, remaining, ready) ==
    IF rd.buffer = <<>>
    THEN LET p == FusePollNext(rd.stream, ready)
             rd1 == [rd EXCEPT !.stream = p.fuse]
         IN  CASE p.res.t = "Pending" ->
                    [rd |-> rd1, res |-> PollPending, put |-> <<>>,
                     polled |-> p.polled, pulled |-> 0, got |-> "Pending"]
               [] p.res.t = "None" ->
                    [rd |-> rd1, res |-> Res("Ok", NoErr, 0, <<>>), put |-> <<>>,
                     polled |-> p.polled, pulled |-> 0, got |-> "None"]
               [] p.res.t = "Err" ->
                    [rd |-> rd1, res |-> PollErr(p.res.e), put |-> <<>>,
                     polled |-> p.polled, pulled |-> 0, got |-> "Err"]
               [] OTHER ->
                    LET q == FusePollNext(p.fuse, ready)
                    IN  IF Len(p.res.v) < remaining /\ q.res.t = "Chunk"
                        THEN Serve([rd EXCEPT !.stream = q.fuse,
                                              !.buffer = p.res.v \o q.res.v],
                                   remaining, TRUE, 2)
                        ELSE Serve([rd1 EXCEPT !.buffer = rd.buffer \o p.res.v],
                                   remaining, p.polled, 1)
    ELSE Serve(rd, remaining, FALSE, 0)

\* poll_read that takes a source error for the end of the stream.
PollReadErrAsEnd(rd, remaining, ready) ==
    IF rd.buffer = <<>>
    THEN LET p == FusePollNext(rd.stream, ready)
             rd1 == [rd EXCEPT !.stream = p.fuse]
         IN  CASE p.res.t = "Pending" ->
                    [rd |-> rd1, res |-> PollPending, put |-> <<>>,
                     polled |-> p.polled, pulled |-> 0, got |-> "Pending"]
               [] p.res.t \in {"None", "Err"} ->
                    [rd |-> rd1, res |-> Res("Ok", NoErr, 0, <<>>), put |-> <<>>,
                     polled |-> p.polled, pulled |-> 0, got |-> p.res.t]
               [] OTHER ->
                    Serve([rd1 EXCEPT !.buffer = rd.buffer \o p.res.v],
                          remaining, p.polled, 1)
    ELSE Serve(rd, remaining, FALSE, 0)

\* poll_read that tries to fill the target: it polls the source whenever the
\* retained buffer holds fewer bytes than the target can take.
PollReadTopUp(rd, remaining, ready) ==
    IF Len(rd.buffer) < remaining
    THEN LET p == FusePollNext(rd.stream, ready)
             rd1 == [rd EXCEPT !.stream = p.fuse]
         IN  CASE p.res.t = "Pending" ->
                    [rd |-> rd1, res |-> PollPending, put |-> <<>>,
                     polled |-> p.polled, pulled |-> 0, got |-> "Pending"]
               [] p.res.t = "None" ->
                    [Serve(rd1, remaining, p.polled, 0) EXCEPT !.got = "None"]
               [] p.res.t = "Err" ->
                    [rd |-> rd1, res |-> PollErr(p.res.e), put |-> <<>>,
                     polled |-> p.polled, pulled |-> 0, got |-> "Err"]
               [] OTHER ->
                    Serve([rd1 EXCEPT !.buffer = rd.buffer \o p.res.v],
                          remaining, p.polled, 1)
    ELSE Serve(rd, remaining, FALSE, 0)

\* poll_read that does not complete when the stream reports its end: it
\* returns Pending instead of Ready(Ok(())).
PollReadPendingAtEnd(rd, remaining, ready) ==
    IF rd.buffer = <<>>
    THEN LET p == FusePollNext(rd.stream, ready)
             rd1 == [rd EXCEPT !.stream = p.fuse]
         IN  CASE p.res.t \in {"Pending", "None"} ->
                    [rd |-> rd1, res |-> PollPending, put |-> <<>>,
                     polled |-> p.polled, pulled |-> 0, got |-> p.res.t]
               [] p.res.t = "Err" ->
                    [rd |-> rd1, res |-> PollErr(p.res.e), put |-> <<>>,
                     polled |-> p.polled, pulled |-> 0, got |-> "Err"]
               [] OTHER ->
                    Serve([rd1 EXCEPT !.buffer = rd.buffer \o p.res.v],
                          remaining, p.polled, 1)
    ELSE Serve(rd, remaining, FALSE, 0)

\* AsyncRead::poll_read on a target with `remaining` free bytes.  The result
\* names the new reader state, the poll result, the bytes put into the
\* target, whether the wrapped source was polled, how many chunks were
\* obtained and what the stream poll returned.
PollRead(rd, remaining, ready) ==
    IF rd.buffer = <<>>
    THEN LET p == FusePollNext(rd.stream, ready)
             rd1 == [rd EXCEPT !.stream = p.fuse]
         IN  CASE p.res.t = "Pending" ->
                    [rd |-> rd1, res |-> PollPending, put |-> <<>>,
                     polled |-> p.polled, pulled |-> 0, got |-> "Pending"]
               [] p.res.t = "None" ->
                    [rd |-> rd1, res |-> Res("Ok", NoErr, 0, <<>>), put |-> <<>>,
                     polled |-> p.polled, pulled |-> 0, got |-> "None"]
               [] p.res.t = "Err" ->
                    [rd |-> rd1, res |-> PollErr(p.res.e), put |-> <<>>,
                     polled |-> p.polled, pulled |-> 0, got |-> "Err"]
               [] OTHER ->
                    Serve([rd1 EXCEPT !.buffer = rd.buffer \o p.res.v],
                          remaining, p.polled, 1)
    ELSE Serve(rd, remaining, FALSE, 0)

\* ---------------------------------------------------------- ImplBlockingRead
ImplBlockingReadNew(stream) ==
    [kind |-> "ImplBlockingRead", inner |-> ImplAsyncReadNew(stream)]

\* The closure returning the length of the caller's buffer instead of the
\* length of its filled part.
BlockingReadPollFnWholeBuf(o, buflen, ready) ==
    LET p == PollRead(o.inner, buflen, ready)
    IN  [obj |-> [o EXCEPT !.inner = p.rd],
         res |-> CASE p.res.t = "Pending" -> PollPending
                   [] p.res.t = "Err" -> PollErr(p.res.e)
                   [] OTHER -> Res("Ok", NoErr, buflen, <<>>),
         p |-> p]

\* The closure that <ImplBlockingRead as io::Read>::read drives with
\* block_on: a fresh ReadBuf over the caller's buffer, one poll_read of the
\* inner reader, and on Ready(Ok) the length of the filled part.
BlockingReadPollFn(o, buflen, ready) ==
    LET p == PollRead(o.inner, buflen, ready)
    IN  [obj |-> [o EXCEPT !.inner = p.rd],
         res |-> CASE p.res.t = "Pending" -> PollPending
                   [] p.res.t = "Err" -> PollErr(p.res.e)
                   [] OTHER -> Res("Ok", NoErr, Len(p.put), <<>>),
         p |-> p]

\* tokio's AsyncReadExt::read future, as the tests use it on the
\* ImplAsyncRead: a fresh ReadBuf over the caller's buffer, one poll_read,
\* and on Ready(Ok) the length of the filled part.
AsyncReadPollFn(o, buflen, ready) ==
    LET p == PollRead(o, buflen, ready)
    IN  [obj |-> p.rd,
         res |-> CASE p.res.t = "Pending" -> PollPending
                   [] p.res.t = "Err" -> PollErr(p.res.e)
                   [] OTHER -> Res("Ok", NoErr, Len(p.put), <<>>),
         p |-> p]

\* The ImplAsyncRead of an adapter of either kind.
Reader(o) == IF o.kind = "ImplBlockingRead" THEN o.inner ELSE o

IsReader(o) == o.kind \in {"ImplAsyncRead", "ImplBlockingRead"}

\* ---------------------------------------------------------------- the state
VARIABLES
    src,        \* the items of the chunk source the ByteStreams are built from
    fixed,      \* TRUE: the caller passes its whole 3-byte buffer to every read
    made,       \* made[r]: constructor and argument of ByteStream r, while it exists
    obj,        \* obj[r]: the ByteStream, ImplAsyncRead or ImplBlockingRead
    pc,         \* pc[r]: "idle", or "reading" while a read call is in progress
    cap,        \* cap[r]: length of the target buffer of the current/last read
    out,        \* out[r]: the bytes the current/last read put into its target
    ret,        \* ret[r]: what the last operation that returned on r returned
    rt,         \* rt[r]: a tokio Runtime created by r is alive
    delivered,  \* delivered[r]: all bytes put into target buffers so far
    pulled,     \* pulled[r]: chunks obtained from the source by the current read
    polled,     \* polled[r]: the last step on r polled the wrapped source
    ended,      \* ended[r]: the source has reported None to the object r
    erred,      \* erred[r]: the source has yielded an error to the object r
    turn,       \* the instance the caller operates on next
    lastOp      \* the operation last completed on "async"

vars == <<src, fixed, made, obj, pc, cap, out, ret, rt, delivered,
          pulled, polled, ended, erred, turn, lastOp>>

Hints == {0, TestSizeHint}

Consumed == [ctor |-> "consumed", arg |-> None]

Ctors(s) ==
    {[ctor |-> "new", arg |-> None]}
    \cup {[ctor |-> "new_with_size", arg |-> Some(h)] : h \in Hints}
    \cup (IF Len(s) = 1 /\ s[1].t = "chunk"
          THEN {[ctor |-> c, arg |-> None] : c \in {"from_bytes", "from_vec"}}
          ELSE {})

Construct(m, s) ==
    CASE m.ctor = "new" -> New(s)
      [] m.ctor = "new_with_size" -> NewWithSize(s, m.arg[1])
      [] m.ctor = "from_bytes" -> FromBytes(s[1].b)
      [] OTHER -> FromVec(s[1].b)

Caps == IF fixed THEN {TestBufLen} ELSE 0 .. MaxCap

Other(r) == IF r = "async" THEN "blocking" ELSE "async"

Op(name, c) == [op |-> name, cap |-> c]

\* The caller may apply operation o to instance r now.
MayDo(r, o) == turn = r /\ pc[r] = "idle" /\ (r = "blocking" => lastOp = o)

\* The caller uses a ByteStream as a Stream, or converts it into a reader
\* before it has taken an item from it.
Unpolled(r) == obj[r].inner = src

\* The operation o on r has completed: the other instance is next.
Pass(r, o) ==
    /\ turn' = Other(r)
    /\ lastOp' = (IF r = "async" THEN o ELSE lastOp)

Init ==
    /\ src \in Sources \cup {TestChunks}
    /\ fixed \in BOOLEAN
    /\ \E m \in Ctors(src) :
          /\ made = [r \in Insts |-> m]
          /\ obj = [r \in Insts |-> Construct(m, src)]
    /\ pc = [r \in Insts |-> "idle"]
    /\ cap = [r \in Insts |-> 0]
    /\ out = [r \in Insts |-> <<>>]
    /\ ret = [r \in Insts |-> NoRet]
    /\ rt = [r \in Insts |-> FALSE]
    /\ delivered = [r \in Insts |-> <<>>]
    /\ pulled = [r \in Insts |-> 0]
    /\ polled = [r \in Insts |-> FALSE]
    /\ ended = [r \in Insts |-> FALSE]
    /\ erred = [r \in Insts |-> FALSE]
    /\ turn = "async"
    /\ lastOp = Op("-", 0)

\* ------------------------------------------------------------- the operations
\* ByteStream::size_hint(&self)
SizeHint(r) ==
    /\ obj[r].kind = "ByteStream"
    /\ MayDo(r, Op("size_hint", 0))
    /\ ret' = [ret EXCEPT ![r] = Res("Hint", NoErr, 0, SizeHintOf(obj[r]))]
    /\ polled' = [polled EXCEPT ![r] = FALSE]
    /\ Pass(r, Op("size_hint", 0))
    /\ UNCHANGED <<src, fixed, made, obj, pc, cap, out, rt, delivered,
                   pulled, ended, erred>>

\* <ByteStream as Stream>::poll_next.  A Pending poll is repeated by the
\* caller, so the operation completes with the first Ready result.
PollNext(r, ready) ==
    /\ obj[r].kind = "ByteStream"
    /\ MayDo(r, Op("poll_next", 0))
    /\ LET p == ByteStreamPollNext(obj[r], ready)
       IN  /\ obj' = [obj EXCEPT ![r] = p.obj]
           /\ ret' = [ret EXCEPT ![r] = p.res]
           /\ polled' = [polled EXCEPT ![r] = (p.polls > 0)]
           /\ ended' = [ended EXCEPT ![r] = @ \/ p.res.t = "None"]
           /\ erred' = [erred EXCEPT ![r] = @ \/ p.res.t = "Err"]
           /\ IF p.res.t = "Pending"
              THEN UNCHANGED <<turn, lastOp>>
              ELSE Pass(r, Op("poll_next", 0))
    /\ UNCHANGED <<src, fixed, made, pc, cap, out, rt, delivered, pulled>>

\* ByteStream::into_async_read(self)
IntoAsyncRead(r) ==
    /\ r = "async"
    /\ obj[r].kind = "ByteStream"
    /\ MayDo(r, Op("into", 0))
    /\ Unpolled(r)
    /\ obj' = [obj EXCEPT ![r] = ImplAsyncReadNew(obj[r].inner)]
    /\ made' = [made EXCEPT ![r] = Consumed]
    /\ ret' = [ret EXCEPT ![r] = NoRet]
    /\ polled' = [polled EXCEPT ![r] = FALSE]
    /\ ended' = [ended EXCEPT ![r] = FALSE]
    /\ erred' = [erred EXCEPT ![r] = FALSE]
    /\ Pass(r, Op("into", 0))
    /\ UNCHANGED <<src, fixed, pc, cap, out, rt, delivered, pulled>>

\* ByteStream::into_blocking_read(self)
IntoBlockingRead(r) ==
    /\ r = "blocking"
    /\ obj[r].kind = "ByteStream"
    /\ MayDo(r, Op("into", 0))
    /\ Unpolled(r)
    /\ obj' = [obj EXCEPT ![r] = ImplBlockingReadNew(obj[r].inner)]
    /\ made' = [made EXCEPT ![r] = Consumed]
    /\ ret' = [ret EXCEPT ![r] = NoRet]
    /\ polled' = [polled EXCEPT ![r] = FALSE]
    /\ ended' = [ended EXCEPT ![r] = FALSE]
    /\ erred' = [erred EXCEPT ![r] = FALSE]
    /\ Pass(r, Op("into", 0))
    /\ UNCHANGED <<src, fixed, pc, cap, out, rt, delivered, pulled>>

\* The caller starts `async_read.read(&mut buf)` with a c-byte buffer.
AsyncReadCall(r, c) ==
    /\ obj[r].kind = "ImplAsyncRead"
    /\ MayDo(r, Op("read", c))
    /\ pc' = [pc EXCEPT ![r] = "reading"]
    /\ cap' = [cap EXCEPT ![r] = c]
    /\ out' = [out EXCEPT ![r] = <<>>]
    /\ pulled' = [pulled EXCEPT ![r] = 0]
    /\ polled' = [polled EXCEPT ![r] = FALSE]
    /\ UNCHANGED <<src, fixed, made, obj, ret, rt, delivered, ended, erred,
                   turn, lastOp>>

\* ReadPolled that keeps the runtime of the call alive when the read returns
\* an error.
ReadPolledLeakOnErr(r, f) ==
    /\ obj' = [obj EXCEPT ![r] = f.obj]
    /\ out' = [out EXCEPT ![r] = f.p.put]
    /\ delivered' = [delivered EXCEPT ![r] = @ \o f.p.put]
    /\ pulled' = [pulled EXCEPT ![r] = @ + f.p.pulled]
    /\ polled' = [polled EXCEPT ![r] = f.p.polled]
    /\ ended' = [ended EXCEPT ![r] = @ \/ (f.p.polled /\ f.p.got = "None")]
    /\ erred' = [erred EXCEPT ![r] = @ \/ (f.p.polled /\ f.p.got = "Err")]
    /\ IF f.res.t = "Pending"
       THEN UNCHANGED <<pc, ret, rt, turn, lastOp>>
       ELSE /\ pc' = [pc EXCEPT ![r] = "idle"]
            /\ ret' = [ret EXCEPT ![r] = f.res]
            /\ rt' = (IF f.res.t = "Err" THEN rt ELSE [rt EXCEPT ![r] = FALSE])
            /\ Pass(r, Op("read", cap[r]))

\* The effect of one poll f of the read in progress on r; the read returns
\* with the first Ready result, and a runtime created for it is dropped.
ReadPolled(r, f) ==
    /\ obj' = [obj EXCEPT ![r] = f.obj]
    /\ out' = [out EXCEPT ![r] = f.p.put]
    /\ delivered' = [delivered EXCEPT ![r] = @ \o f.p.put]
    /\ pulled' = [pulled EXCEPT ![r] = @ + f.p.pulled]
    /\ polled' = [polled EXCEPT ![r] = f.p.polled]
    /\ ended' = [ended EXCEPT ![r] = @ \/ (f.p.polled /\ f.p.got = "None")]
    /\ erred' = [erred EXCEPT ![r] = @ \/ (f.p.polled /\ f.p.got = "Err")]
    /\ IF f.res.t = "Pending"
       THEN UNCHANGED <<pc, ret, rt, turn, lastOp>>
       ELSE /\ pc' = [pc EXCEPT ![r] = "idle"]
            /\ ret' = [ret EXCEPT ![r] = f.res]
            /\ rt' = [rt EXCEPT ![r] = FALSE]
            /\ Pass(r, Op("read", cap[r]))

\* One poll of the read in progress on the ImplAsyncRead.
AsyncReadPoll(r, ready) ==
    /\ obj[r].kind = "ImplAsyncRead"
    /\ turn = r
    /\ pc[r] = "reading"
    /\ \E f \in {AsyncReadPollFn(obj[r], cap[r], ready)} : ReadPolled(r, f)
    /\ UNCHANGED <<src, fixed, made, cap>>

\* BlockingReadCall that polls the inner reader once before it finds that
\* the runtime cannot be created.
BlockingReadCallReadsFirst(r, c, created) ==
    /\ obj[r].kind = "ImplBlockingRead"
    /\ MayDo(r, Op("read", c))
    /\ cap' = [cap EXCEPT ![r] = c]
    /\ out' = [out EXCEPT ![r] = <<>>]
    /\ pulled' = [pulled EXCEPT ![r] = 0]
    /\ polled' = [polled EXCEPT ![r] = FALSE]
    /\ IF created
       THEN /\ rt' = [rt EXCEPT ![r] = TRUE]
            /\ pc' = [pc EXCEPT ![r] = "reading"]
            /\ UNCHANGED <<ret, obj>>
       ELSE /\ ret' = [ret EXCEPT ![r] = PollErr(RuntimeErr)]
            /\ obj' = [obj EXCEPT ![r] = BlockingReadPollFn(obj[r], c, TRUE).obj]
            /\ UNCHANGED <<rt, pc>>
    /\ UNCHANGED <<src, fixed, made, delivered, ended, erred, turn, lastOp>>

\* <ImplBlockingRead as io::Read>::read(&mut buf) with a c-byte buffer:
\* Runtime::new()? comes first; `created` is whether it succeeds.
BlockingReadCall(r, c, created) ==
    /\ obj[r].kind = "ImplBlockingRead"
    /\ MayDo(r, Op("read", c))
    /\ cap' = [cap EXCEPT ![r] = c]
    /\ out' = [out EXCEPT ![r] = <<>>]
    /\ pulled' = [pulled EXCEPT ![r] = 0]
    /\ polled' = [polled EXCEPT ![r] = FALSE]
    /\ IF created
       THEN /\ rt' = [rt EXCEPT ![r] = TRUE]
            /\ pc' = [pc EXCEPT ![r] = "reading"]
            /\ UNCHANGED ret
       ELSE /\ ret' = [ret EXCEPT ![r] = PollErr(RuntimeErr)]
            /\ UNCHANGED <<rt, pc>>
    /\ UNCHANGED <<src, fixed, made, obj, delivered, ended, erred,
                   turn, lastOp>>

\* block_on polls the closure: one poll of the blocking read in progress.
\* The runtime is dropped when read returns.
BlockingReadPoll(r, ready) ==
    /\ obj[r].kind = "ImplBlockingRead"
    /\ turn = r
    /\ pc[r] = "reading"
    /\ \E f \in {BlockingReadPollFn(obj[r], cap[r], ready)} : ReadPolled(r, f)
    /\ UNCHANGED <<src, fixed, made, cap>>

Next ==
    \/ \E r \in Insts : SizeHint(r)
    \/ \E r \in Insts, ready \in BOOLEAN : PollNext(r, ready)
    \/ \E r \in Insts : IntoAsyncRead(r)
    \/ \E r \in Insts : IntoBlockingRead(r)
    \/ \E r \in Insts, c \in Caps : AsyncReadCall(r, c)
    \/ \E r \in Insts, ready \in BOOLEAN : AsyncReadPoll(r, ready)
    \/ \E r \in Insts, c \in Caps, created \in BOOLEAN : BlockingReadCall(r, c, created)
    \/ \E r \in Insts, ready \in BOOLEAN : BlockingReadPoll(r, ready)

Spec == Init /\ [][Next]_vars

TypeOK ==
    /\ turn \in Insts
    /\ \A r \in Insts : pc[r] \in {"idle", "reading"} /\ pulled[r] \in 0 .. 1

\* ------------------------------------------------------ helpers of the claims
AllChunks(s) == \A i \in 1 .. Len(s) : s[i].t = "chunk"

AllBytes(s) == ChunkBytes(s, Len(s))

Buffer(r) == Reader(obj[r]).buffer

Ok(n) == Res("Ok", NoErr, n, <<>>)

\* A step taken now on r is a poll of the read in progress on r.
PollStep(r) == IsReader(obj[r]) /\ turn = r /\ pc[r] = "reading"

\* The step is a poll on r with which the read returns.
Returns(r) == PollStep(r) /\ pc'[r] = "idle"

\* ------------------------------------------------------------------------ C1
\* C1 (chunk-order preservation): for a source that is a finite sequence of
\* chunks without errors, whatever the target-buffer sizes of the reads, the
\* bytes put into the target buffers so far, in call order, are a prefix of
\* the concatenation of the chunks, and are the whole concatenation once a
\* read has reported the end of the stream (the source has reported None).
ChunkOrderPreserved ==
    \A r \in Insts :
        (IsReader(obj[r]) /\ AllChunks(src)) =>
            /\ IsPrefix(delivered[r], AllBytes(src))
            /\ (ended[r] => delivered[r] = AllBytes(src))

\* Both chunks of the tests were read to the end with varying buffer sizes,
\* one read taking a single byte.
ChunkOrderWitness ==
    /\ src = TestChunks
    /\ ~fixed
    /\ ended["async"]
    /\ delivered["async"] = <<1, 2, 3, 4, 5, 6, 7, 8>>
    /\ cap["async"] = 1

\* ------------------------------------------------------------------------ C2
\* C2 (zero-capacity no-op): a poll of a read whose target buffer has zero
\* capacity does not poll the source, leaves the retained buffer unchanged
\* and returns zero bytes written, in every reader state.
ZeroCapacityNoOp ==
    [][\A r \in Insts :
          (PollStep(r) /\ cap[r] = 0) =>
              /\ ~polled'[r]
              /\ pulled'[r] = 0
              /\ Buffer(r)' = Buffer(r)
              /\ pc'[r] = "idle"
              /\ ret'[r] = Ok(0)]_vars

\* ------------------------------------------------------------------------ C3
\* C3 as stated (end-of-stream idempotence): once a read has returned zero
\* bytes with no error, every later read that returns, with any target-buffer
\* size, also returns zero bytes with no error.
ZeroThenAlwaysZero ==
    [][\A r \in Insts :
          (Returns(r) /\ ret[r] = Ok(0)) => ret'[r] = Ok(0)]_vars

\* C3 as amended: once a read has returned zero bytes because the source
\* reported its end (None), every later read that returns, with any
\* target-buffer size, returns zero bytes with no error and writes nothing.
EndOfStreamIdempotent ==
    [][\A r \in Insts :
          (Returns(r) /\ ended[r]) =>
              /\ ret'[r] = Ok(0)
              /\ out'[r] = <<>>
              /\ delivered'[r] = delivered[r]]_vars

\* A read after the end was reported has returned zero bytes although the
\* source would produce a chunk if it were polled again.
EndOfStreamWitness ==
    \E r \in Insts :
        /\ IsReader(obj[r])
        /\ ended[r]
        /\ pc[r] = "idle"
        /\ ~polled[r]
        /\ ret[r] = Ok(0)
        /\ cap[r] > 0
        /\ Reader(obj[r]).stream.stream # <<>>
        /\ Head(Reader(obj[r]).stream.stream).t = "chunk"

\* ------------------------------------------------------------------------ C4
\* C4 as stated (an error exhausts the source): once the source has yielded
\* an error to a read of the reader, no later poll of a read on that reader
\* polls the source.
NoPollAfterError ==
    [][\A r \in Insts : (PollStep(r) /\ erred[r]) => ~polled'[r]]_vars

\* C4 as amended: an error does not exhaust the source.  After the source has
\* yielded an error to a read of the reader, a poll of a later read polls the
\* source exactly when the retained buffer is empty and the source has not
\* reported its end (None); only the end stops the polling.
PollAfterErrorUnlessEnded ==
    [][\A r \in Insts :
          (PollStep(r) /\ erred[r]) =>
              (polled'[r] <=> (Buffer(r) = <<>> /\ ~ended[r]))]_vars

\* After an error was returned, a later read has polled the source and got a
\* chunk from it.
PollAfterErrorWitness ==
    \E r \in Insts :
        /\ IsReader(obj[r])
        /\ erred[r]
        /\ pc[r] = "idle"
        /\ polled[r]
        /\ pulled[r] = 1
        /\ ret[r].t = "Ok"
        /\ ret[r].n > 0

\* ------------------------------------------------------------------------ C5
\* C5 (sticky end of stream): once the source has reported None to the
\* reader, no later poll of a read polls the source, and every later read
\* (its retained buffer is empty) returns at its first poll with zero bytes
\* written and no error.
StickyEndOfStream ==
    [][\A r \in Insts :
          (PollStep(r) /\ ended[r]) =>
              /\ ~polled'[r]
              /\ Reader(obj[r]).stream.stream' = Reader(obj[r]).stream.stream
              /\ (Buffer(r) = <<>> => (pc'[r] = "idle" /\ ret'[r] = Ok(0) /\ out'[r] = <<>>))]_vars

\* A read after the end has returned without polling a source that has an
\* item left, an error or a chunk, after its end report.
StickyEndWitness ==
    \E r \in Insts :
        /\ IsReader(obj[r])
        /\ ended[r]
        /\ pc[r] = "idle"
        /\ ~polled[r]
        /\ cap[r] > 0
        /\ ret[r] = Ok(0)
        /\ Len(delivered[r]) > 0
        /\ Reader(obj[r]).stream.stream # <<>>

\* ------------------------------------------------------------------------ C6
\* C6 (at most one pull per read): a read call, over all its polls, obtains
\* at most one chunk from the source, and the bytes it puts into the target
\* are a run of bytes of one chunk, even when the target is larger.
OneChunk(bytes) ==
    \/ bytes = <<>>
    \/ \E i \in 1 .. Len(src) :
          /\ src[i].t = "chunk"
          /\ \E a \in 1 .. Len(src[i].b) :
                /\ a + Len(bytes) - 1 <= Len(src[i].b)
                /\ bytes = SubSeq(src[i].b, a, a + Len(bytes) - 1)

AtMostOnePullPerRead ==
    \A r \in Insts : IsReader(obj[r]) => (pulled[r] <= 1 /\ OneChunk(out[r]))

\* A read with a target larger than the chunk it pulled has returned that
\* chunk alone although the source's next item is a non-empty chunk.
OnePullWitness ==
    \E r \in Insts :
        /\ IsReader(obj[r])
        /\ pc[r] = "idle"
        /\ pulled[r] = 1
        /\ Len(out[r]) > 0
        /\ cap[r] > Len(out[r])
        /\ Reader(obj[r]).stream.stream # <<>>
        /\ Head(Reader(obj[r]).stream.stream).t = "chunk"
        /\ Head(Reader(obj[r]).stream.stream).b # <<>>

\* ------------------------------------------------------------------------ C7
\* C7 (blocking/cooperative equivalence): over the same source (chunks,
\* errors, suspensions) and the same target-buffer sizes, whenever the two
\* readers have completed the same calls, every runtime having been created,
\* the last call returned the same byte count or the same error on both and
\* put the same bytes into the target, and so did all calls before it.
BlockingEquivalent ==
    (turn = "async" /\ pc["async"] = "idle"
         /\ IsReader(obj["async"]) /\ IsReader(obj["blocking"])) =>
        /\ ret["blocking"] = ret["async"]
        /\ out["blocking"] = out["async"]
        /\ delivered["blocking"] = delivered["async"]
        /\ Reader(obj["blocking"]) = obj["async"]

\* Both readers have returned the same source error after delivering bytes
\* with a target smaller than the chunk.
BlockingEquivalentWitness ==
    /\ turn = "async"
    /\ pc["async"] = "idle"
    /\ IsReader(obj["blocking"])
    /\ ret["blocking"].t = "Err"
    /\ ret["blocking"].e.origin = "source"
    /\ Len(delivered["blocking"]) = 2
    /\ cap["blocking"] = 1

\* ------------------------------------------------------------------------ C8
\* C8 (read result size): a read that returns without error and is not the
\* end-of-stream case writes n = min(target capacity, length of the retained
\* buffer after the optional pull) bytes, the first n bytes of that buffer,
\* and retains the rest; the chunks "1234", "5678" read with a 3-byte buffer
\* give "123", "4", "567", "8", "" (sizes 3, 1, 3, 1, 0) on both readers.
Retained(r) ==
    IF Buffer(r) # <<>> THEN Buffer(r) ELSE Head(Reader(obj[r]).stream.stream).b

TestReads ==
    {<<3, Ok(3), <<1, 2, 3>>, FALSE>>, <<4, Ok(1), <<4>>, FALSE>>,
     <<7, Ok(3), <<5, 6, 7>>, FALSE>>, <<8, Ok(1), <<8>>, FALSE>>,
     <<8, Ok(0), <<>>, TRUE>>}

ReadResultSize ==
    /\ [][\A r \in Insts :
            (Returns(r) /\ ret'[r].t = "Ok" /\ (Buffer(r) # <<>> \/ pulled'[r] > 0)) =>
                LET n == Min(cap[r], Len(Retained(r)))
                IN  /\ ret'[r] = Ok(n)
                    /\ out'[r] = Take(Retained(r), n)
                    /\ Buffer(r)' = Drop(Retained(r), n)]_vars
    /\ [](\A r \in Insts :
            (src = TestChunks /\ fixed /\ IsReader(obj[r]) /\ pc[r] = "idle"
                 /\ ret[r].t = "Ok") =>
                <<Len(delivered[r]), ret[r], out[r], ended[r]>> \in TestReads)

\* The tests' fifth read has returned 0 on the blocking reader.
ReadResultSizeWitness ==
    /\ src = TestChunks
    /\ fixed
    /\ turn = "async"
    /\ ended["blocking"]
    /\ <<Len(delivered["blocking"]), ret["blocking"], out["blocking"]>> = <<8, Ok(0), <<>>>>

\* ------------------------------------------------------------------------ C9
\* C9 (error pass-through): when the pull inside a read yields an error, the
\* read returns that same error, puts no bytes into the target, and the
\* retained buffer, empty on entry, stays empty.
ErrorPassThrough ==
    [][\A r \in Insts :
          LET s == Reader(obj[r]).stream
          IN  (Returns(r) /\ Buffer(r) = <<>> /\ ~s.done /\ s.stream # <<>>
                   /\ Head(s.stream).t = "err") =>
                  /\ ret'[r] = PollErr(Head(s.stream).e)
                  /\ out'[r] = <<>>
                  /\ delivered'[r] = delivered[r]
                  /\ Buffer(r)' = <<>>]_vars

\* The blocking reader has returned the error of the source's second item
\* after delivering the bytes of the first.
ErrorPassThroughWitness ==
    /\ IsReader(obj["blocking"])
    /\ pc["blocking"] = "idle"
    /\ ret["blocking"] = PollErr(SourceErr(2))
    /\ Len(delivered["blocking"]) > 0
    /\ Len(src) = 3
    /\ src[3].t = "err"

\* ----------------------------------------------------------------------- C10
\* C10 (size-hint pass-through): as long as the ByteStream exists its size
\* hint is the length of the buffer it was built from (From<Bytes>,
\* From<Vec<u8>>), the hint given to new_with_size, or None for new, whatever
\* has been pulled from it and whatever the source produces; size_hint()
\* returns that value.
HintAtConstruction(m) ==
    CASE m.ctor = "new" -> None
      [] m.ctor = "new_with_size" -> m.arg
      [] OTHER -> Some(Len(src[1].b))

SizeHintPassThrough ==
    \A r \in Insts :
        obj[r].kind = "ByteStream" =>
            /\ obj[r].size_hint = HintAtConstruction(made[r])
            /\ (ret[r].t = "Hint" => ret[r].v = HintAtConstruction(made[r]))

\* size_hint() has returned Some(8) after both chunks of the tests and the
\* end of the source were pulled from the ByteStream.
SizeHintWitness ==
    \E r \in Insts :
        /\ obj[r].kind = "ByteStream"
        /\ src = TestChunks
        /\ made[r] = [ctor |-> "new_with_size", arg |-> Some(TestSizeHint)]
        /\ obj[r].inner = <<>>
        /\ ended[r]
        /\ ret[r] = Res("Hint", NoErr, 0, Some(TestSizeHint))

\* ----------------------------------------------------------------------- C11
\* The step is a poll_next call on the ByteStream r.
PollNextStep(r) ==
    /\ obj[r].kind = "ByteStream"
    /\ obj'[r].kind = "ByteStream"
    /\ turn = r
    /\ polled'[r]

\* A source that keeps reporting its end once it has reported it.
NonRestartable(s) == \A i \in 1 .. Len(s) : s[i].t # "end"

\* C11 as stated (ByteStream is not restartable): once poll_next of the
\* ByteStream has reported the end of the sequence, every later poll_next
\* that is ready reports the end, for every wrapped source.
StaysExhausted ==
    [][\A r \in Insts :
          (PollNextStep(r) /\ ended[r] /\ ret'[r] # PollPending) =>
              ret'[r] = PollNone]_vars

\* C11 as amended: once poll_next of a ByteStream that wraps a source which
\* keeps reporting its end has reported the end of the sequence, every later
\* poll_next that is ready reports the end; the ByteStream adds no fuse, so
\* over a source that produces items after its end report it yields them.
StaysExhaustedIfSourceDoes ==
    [][\A r \in Insts :
          (PollNextStep(r) /\ ended[r] /\ NonRestartable(src) /\ ret'[r] # PollPending) =>
              (ret'[r] = PollNone /\ obj'[r] = obj[r])]_vars

\* Both ByteStreams had reported the end, after a chunk, an error and a
\* chunk, and poll_next on the first has reported the end once more.
StaysExhaustedWitness ==
    /\ obj["async"].kind = "ByteStream"
    /\ NonRestartable(src)
    /\ Len(src) = 3
    /\ src[2].t = "err"
    /\ obj["async"].inner = <<>>
    /\ ended["async"]
    /\ ended["blocking"]
    /\ erred["async"]
    /\ ret["async"] = PollNone
    /\ lastOp = Op("poll_next", 0)
    /\ turn = "blocking"

\* ----------------------------------------------------------------------- C12
\* The number of items the source has handed out to r.
Taken(r) ==
    Len(src) - Len(IF obj[r].kind = "ByteStream" THEN obj[r].inner
                   ELSE Reader(obj[r]).stream.stream)

\* What the source returns for its item i.
ItemResult(i) ==
    IF i > Len(src) THEN PollNone
    ELSE CASE src[i].t = "chunk" -> PollChunk(src[i].b)
           [] src[i].t = "err" -> PollErr(src[i].e)
           [] OTHER -> PollNone

\* C12 (ByteStream delegation): a poll_next call on the ByteStream returns
\* Pending and leaves the source where it was, or returns the result of the
\* source's next item unchanged and advances the source by that one item:
\* the items come out in the source's order and none is held back or lost.
PollNextDelegates ==
    [][\A r \in Insts :
          PollNextStep(r) =>
              \/ ret'[r] = PollPending /\ obj'[r] = obj[r]
              \/ /\ ret'[r] = ItemResult(Taken(r) + 1)
                 /\ obj'[r].inner = Drop(src, Min(Taken(r) + 1, Len(src)))
                 /\ obj'[r].size_hint = obj[r].size_hint]_vars

\* The third item of the source, a chunk, has come out of the ByteStream
\* after an error and an end report.
PollNextDelegatesWitness ==
    \E r \in Insts :
        /\ obj[r].kind = "ByteStream"
        /\ Len(src) = 3
        /\ src[1].t = "err"
        /\ src[2].t = "end"
        /\ obj[r].inner = <<>>
        /\ ret[r] = PollChunk(src[3].b)
        /\ Len(src[3].b) = 2

\* ----------------------------------------------------------------------- C13
\* The step is a blocking read on r that fails to create its runtime.
RuntimeFailure(r) ==
    /\ obj[r].kind = "ImplBlockingRead"
    /\ turn = r
    /\ pc[r] = "idle"
    /\ pc'[r] = "idle"
    /\ ret'[r] = PollErr(RuntimeErr)

\* C13 (context-creation failure): a blocking read that cannot create its
\* runtime returns the I/O error of the creation without attempting the
\* wrapped read: the source is not polled, the reader with its retained
\* buffer is unchanged and nothing is written; the next blocking read whose
\* runtime is created returns what the cooperative reader returned for the
\* same read of the same source.
RuntimeFailureHarmless ==
    [][\A r \in Insts :
          /\ RuntimeFailure(r) =>
                /\ obj'[r] = obj[r]
                /\ ~polled'[r]
                /\ pulled'[r] = 0
                /\ out'[r] = <<>>
                /\ delivered'[r] = delivered[r]
                /\ ~rt'[r]
          /\ (Returns(r) /\ ret[r] = PollErr(RuntimeErr)) =>
                /\ ret'[r] = ret[Other(r)]
                /\ out'[r] = out[Other(r)]
                /\ delivered'[r] = delivered[Other(r)]]_vars

\* After a failed creation with bytes in the retained buffer, the next
\* blocking read, its runtime created, is in progress.
RuntimeFailureWitness ==
    /\ obj["blocking"].kind = "ImplBlockingRead"
    /\ pc["blocking"] = "reading"
    /\ rt["blocking"]
    /\ ret["blocking"] = PollErr(RuntimeErr)
    /\ Buffer("blocking") # <<>>
    /\ Len(delivered["blocking"]) > 0

\* ----------------------------------------------------------------------- C14
\* C14 (zero bytes means end of stream): a read with a target of non-zero
\* capacity that returns without error and with zero bytes written does so
\* only when the source has reported its end, never while chunks are still
\* to come.
ZeroBytesMeansEnd ==
    [][\A r \in Insts :
          (Returns(r) /\ cap[r] > 0 /\ ret'[r] = Ok(0)) => ended'[r]]_vars

\* ----------------------------------------------------------------------- C15
\* C15 (retained-buffer invariant): in every reachable state the retained
\* buffer is empty or a suffix of the chunk pulled last, which is the last
\* item the source has handed out, and a poll of a read polls the source
\* only when the retained buffer is empty; so the buffer never holds bytes
\* of two chunks and is never longer than one chunk.
RetainedIsSuffixOfLastChunk ==
    /\ [](\A r \in Insts :
            (IsReader(obj[r]) /\ Buffer(r) # <<>>) =>
                /\ Taken(r) >= 1
                /\ src[Taken(r)].t = "chunk"
                /\ IsSuffix(Buffer(r), src[Taken(r)].b))
    /\ [][\A r \in Insts :
            (PollStep(r) /\ polled'[r]) => Buffer(r) = <<>>]_vars

\* The last byte of the second chunk is retained after a 1-byte read, the
\* first chunk having been delivered before.
RetainedWitness ==
    \E r \in Insts :
        /\ IsReader(obj[r])
        /\ pc[r] = "idle"
        /\ Taken(r) = 2
        /\ src[1].t = "chunk"
        /\ Len(src[1].b) = 2
        /\ src[2].t = "chunk"
        /\ Len(src[2].b) = 2
        /\ Buffer(r) = <<4>>
        /\ cap[r] = 1
        /\ delivered[r] = <<1, 2, 3>>

\* ----------------------------------------------------------------------- C16
\* C16 (single suspension point): a poll of a read with a non-empty retained
\* buffer returns at once without polling the source; a poll that suspends
\* found the retained buffer empty, polled the source, and leaves the reader
\* with its retained buffer unchanged and nothing written to the target.
SingleSuspensionPoint ==
    [][\A r \in Insts :
          PollStep(r) =>
              /\ Buffer(r) # <<>> => (pc'[r] = "idle" /\ ~polled'[r])
              /\ pc'[r] = "reading" =>
                    /\ Buffer(r) = <<>>
                    /\ polled'[r]
                    /\ obj'[r] = obj[r]
                    /\ out'[r] = <<>>
                    /\ pulled'[r] = 0
                    /\ delivered'[r] = delivered[r]
                    /\ ret'[r] = ret[r]]_vars

\* A read is suspended on the source after earlier reads have delivered
\* bytes, the target being larger than what had been retained.
SuspensionWitness ==
    \E r \in Insts :
        /\ IsReader(obj[r])
        /\ pc[r] = "reading"
        /\ polled[r]
        /\ Buffer(r) = <<>>
        /\ Len(delivered[r]) > 0
        /\ Reader(obj[r]).stream.stream # <<>>

\* ----------------------------------------------------------------------- C17
\* C17 (byte conservation): in every reachable state of a reader, after reads
\* with any target sizes, suspended polls and returned source errors, the
\* bytes delivered so far followed by the retained buffer are the
\* concatenation of the chunks the source has handed out so far.
BytesConserved ==
    \A r \in Insts :
        IsReader(obj[r]) =>
            delivered[r] \o Buffer(r) = ChunkBytes(src, Taken(r))

\* After a returned source error and a zero-capacity read that pulled the
\* next chunk, that chunk is retained whole and the first one delivered.
BytesConservedWitness ==
    \E r \in Insts :
        /\ IsReader(obj[r])
        /\ pc[r] = "idle"
        /\ erred[r]
        /\ cap[r] = 0
        /\ pulled[r] = 1
        /\ Len(Buffer(r)) = 2
        /\ Len(delivered[r]) = 2
        /\ Taken(r) = 3

\* ----------------------------------------------------------------------- C18
\* The scheduling under which reads make progress: the source is eventually
\* ready when a read in progress keeps polling it, the caller keeps issuing
\* reads with targets of non-zero capacity, and the second instance follows
\* the first (it is converted, and the runtime of its read is eventually
\* created).
Fairness ==
    /\ WF_vars(AsyncReadPoll("async", TRUE))
    /\ WF_vars(BlockingReadPoll("blocking", TRUE))
    /\ SF_vars(\E c \in Caps \ {0} : AsyncReadCall("async", c))
    /\ WF_vars(IntoBlockingRead("blocking"))
    /\ WF_vars(\E c \in Caps : BlockingReadCall("blocking", c, TRUE))

\* The sources of the progress claim: finite sequences of chunks, no errors.
LiveInit == Init /\ AllChunks(src)

LiveSpec == LiveInit /\ [][Next]_vars /\ Fairness

\* All bytes of the source have been delivered by r and a read has returned
\* zero bytes with no error at the end of the stream.
ReadToEnd(r) ==
    /\ ended[r]
    /\ pc[r] = "idle"
    /\ ret[r] = Ok(0)
    /\ delivered[r] = AllBytes(src)

\* C18 (progress to end of stream): over a finite source of chunks without
\* errors that is eventually ready when polled, with a caller that keeps
\* issuing reads with non-zero target capacity, a reader eventually has
\* delivered every byte of every chunk and a read has returned zero bytes
\* with no error.
ReadsReachEnd ==
    /\ (IsReader(obj["async"]) /\ AllChunks(src)) ~> ReadToEnd("async")
    /\ (IsReader(obj["blocking"]) /\ AllChunks(src)) ~> ReadToEnd("blocking")

\* The tests' chunks were read to the end by both readers with targets of
\* varying size, the last read having been suspended on the source.
ReadsReachEndWitness ==
    /\ src = TestChunks
    /\ ~fixed
    /\ ReadToEnd("async")
    /\ ReadToEnd("blocking")
    /\ polled["blocking"]
    /\ turn = "async"

\* ----------------------------------------------------------------------- C19
\* C19 (per-call execution context): a runtime created by a reader is alive
\* exactly while a blocking read of that reader is in progress, so none is
\* alive between calls or after a call has returned, whether with bytes, at
\* the end of the stream or with a source error; it comes into being only
\* with the start of a read call, and the wrapped reader is polled only while
\* it is alive.
RuntimePerCall ==
    /\ [](\A r \in Insts :
            rt[r] <=> (obj[r].kind = "ImplBlockingRead" /\ pc[r] = "reading"))
    /\ [][\A r \in Insts :
            /\ (rt'[r] /\ ~rt[r]) => (pc[r] = "idle" /\ pc'[r] = "reading")
            /\ (obj[r].kind = "ImplBlockingRead" /\ obj'[r] # obj[r]) => rt[r]
            /\ (obj[r].kind = "ImplBlockingRead" /\ Returns(r)) =>
                   (rt[r] /\ ~rt'[r])]_vars

\* A blocking read is suspended on the source inside its runtime, after an
\* earlier read returned a source error and another reached the end of the
\* stream, or returned bytes.
RuntimePerCallWitness ==
    /\ obj["blocking"].kind = "ImplBlockingRead"
    /\ rt["blocking"]
    /\ pc["blocking"] = "reading"
    /\ polled["blocking"]
    /\ erred["blocking"]
    /\ delivered["blocking"] # <<>>

====
